---------------------------- MODULE Spec2Model ----------------------------
(***************************************************************************)
(* RingCT over BLS12-381 G1 (src/src/ringct.rs): RingCtMaterial::sign and  *)
(* RingCtTransaction::verify.                                              *)
(*                                                                         *)
(* The group G1 is modelled symbolically: a point is its vector of         *)
(* coefficients over three independent bases, x for the Pedersen value     *)
(* generator G_v (PedersenGens::B, the G1 generator), y for the blinding   *)
(* generator G_b, z for the hash-to-point base of key images.  Scalars are *)
(* the integers modulo Q.  Amounts are far below the field order in the    *)
(* program (2^64 against a 255 bit order); the model keeps every sum of    *)
(* amounts below Q likewise.                                               *)
(***************************************************************************)
EXTENDS Integers, Sequences, FiniteSets, TLC

\* ------------------------------------------------------------------ bounds

\* Order of the scalar field (scaled down).
Q == 11

\* Largest number of inputs and of outputs of a material.
MaxInputs == 2
MaxOutputs == 2

\* ------------------------------------------------------- scalars and points

Scalars == 0 .. (Q - 1)

ScalarAdd(a, b) == (a + b) % Q

ScalarSub(a, b) == (a + Q - b) % Q

Point(x, y, z) == [x |-> x % Q, y |-> y % Q, z |-> z % Q]

Identity == Point(0, 0, 0)

PointAdd(p, q) == Point(p.x + q.x, p.y + q.y, p.z + q.z)

PointSub(p, q) == Point(p.x + Q - q.x, p.y + Q - q.y, p.z + Q - q.z)

\* G1Affine::to_bytes / to_compressed: the canonical encoding of a point, one
\* "byte" per coordinate.
Compressed(p) == <<p.x, p.y, p.z>>

\* ---------------------------------------------------------- sequence helpers

RECURSIVE Flatten(_)
Flatten(ss) == IF ss = <<>> THEN <<>> ELSE Head(ss) \o Flatten(Tail(ss))

RECURSIVE FoldScalar(_)
FoldScalar(s) == IF s = <<>> THEN 0 ELSE ScalarAdd(Head(s), FoldScalar(Tail(s)))

RECURSIVE PointSum(_)
PointSum(ps) == IF ps = <<>> THEN Identity ELSE PointAdd(Head(ps), PointSum(Tail(ps)))

SeqsUpTo(S, n) == UNION {[1 .. k -> S] : k \in 0 .. n}

Min(a, b) == IF a < b THEN a ELSE b

\* ------------------------------------------------------------------- the rng

\* The caller's random source: its state is a scalar, a draw returns the
\* state and advances it.
RngStep(s) == (3 * s + 1) % Q

RECURSIVE RngAfter(_, _)
RngAfter(s, k) == IF k = 0 THEN s ELSE RngAfter(RngStep(s), k - 1)

\* The k-th draw (k >= 1) from state s.
Draw(s, k) == RngAfter(s, k - 1)

Seeds == {0, 3, 5}

\* --------------------------------------------------------- RevealedCommitment

\* RevealedCommitment::commit: value * G_v + blinding * G_b.
commit(r) == Point(r.value, r.blinding, 0)

from_value(value, blinding) == [value |-> value, blinding |-> blinding]

\* ------------------------------------------------------------ MLSAG (external)

PubKey(sk) == Point(sk, 0, 0)

\* TrueInput::key_image: sk * Hp(pk).
key_image(t) == Point(0, 0, t.secret_key)

TrueInput_public_key(t) == PubKey(t.secret_key)

\* MlsagMaterial::public_keys: the decoys' keys with the true key at pi_base.
Mlsag_public_keys(m) ==
    LET d == [i \in 1 .. Len(m.decoy_inputs) |-> m.decoy_inputs[i].public_key]
    IN SubSeq(d, 1, m.pi_base) \o <<TrueInput_public_key(m.true_input)>>
          \o SubSeq(d, m.pi_base + 1, Len(d))

\* The public commitments of the ring, in ring order.
Mlsag_commitments(m) ==
    LET d == [i \in 1 .. Len(m.decoy_inputs) |-> m.decoy_inputs[i].commitment]
    IN SubSeq(d, 1, m.pi_base) \o <<commit(m.true_input.revealed_commitment)>>
          \o SubSeq(d, m.pi_base + 1, Len(d))

\* TrueInput::random_pseudo_commitment: the true amount under a fresh blinding.
random_pseudo_commitment(t, blinding) ==
    from_value(t.revealed_commitment.value, blinding)

\* MlsagMaterial::sign.  The ring pairs each key with its commitment minus the
\* pseudo-commitment; c0 stands for the challenge/response data, which binds
\* the message, the ring and the key image.
Mlsag_sign(m, msg, rpc) ==
    LET pks == Mlsag_public_keys(m)
        cs == Mlsag_commitments(m)
        pseudo == commit(rpc)
        ring == [i \in 1 .. Len(pks) |-> <<pks[i], PointSub(cs[i], pseudo)>>]
    IN [ring |-> ring,
        key_image |-> key_image(m.true_input),
        pseudo_commitment |-> pseudo,
        c0 |-> [msg |-> msg, ring |-> ring, key_image |-> key_image(m.true_input)]]

MlsagSignature_public_keys(sig) == [i \in 1 .. Len(sig.ring) |-> sig.ring[i][1]]

MlsagSignature_pseudo_commitment(sig) == sig.pseudo_commitment

\* MlsagSignature::verify.
Mlsag_verify(sig, msg, public_commitments) ==
    /\ Len(public_commitments) = Len(sig.ring)
    /\ \A i \in 1 .. Len(sig.ring) :
          PointAdd(sig.ring[i][2], sig.pseudo_commitment) = public_commitments[i]
    /\ sig.c0 = [msg |-> msg, ring |-> sig.ring, key_image |-> sig.key_image]

\* ------------------------------------------------------ range proofs (external)

\* Transcript::new(MERLIN_TRANSCRIPT_LABEL): "BLST_RINGCT".
MERLIN_TRANSCRIPT_LABEL == <<66, 76, 83, 84, 95, 82, 73, 78, 71, 67, 84>>

\* RangeProof::prove_single_with_rng: the proof is bound to the state of the
\* shared transcript and to the commitment, which the transcript then absorbs.
prove_single(ts, value, blinding) ==
    LET V == commit(from_value(value, blinding))
    IN [range_proof |-> [ts |-> ts, V |-> V],
        commitment |-> V,
        ts |-> ts \o Compressed(V)]

\* RangeProof::verify_single.
verify_single(range_proof, ts, commitment) ==
    range_proof.ts = ts /\ range_proof.V = commitment

RangeProof_to_bytes(range_proof) == range_proof.ts \o Compressed(range_proof.V)

\* ------------------------------------------------------------------ OutputProof

OutputProof_to_bytes(o) ==
    Compressed(o.public_key) \o RangeProof_to_bytes(o.range_proof)
        \o Compressed(o.commitment)

\* ------------------------------------------------------------ the signing message

gen_message_for_signing(pks, kis, pseudo, output_proofs) ==
    Flatten([i \in 1 .. Len(pks) |-> Compressed(pks[i])])
      \o Flatten([i \in 1 .. Len(kis) |-> Compressed(kis[i])])
      \o Flatten([i \in 1 .. Len(pseudo) |-> Compressed(pseudo[i])])
      \o Flatten([i \in 1 .. Len(output_proofs) |-> OutputProof_to_bytes(output_proofs[i])])

\* --------------------------------------------------------------- RingCtMaterial

public_keys(m) ==
    Flatten([i \in 1 .. Len(m.inputs) |-> Mlsag_public_keys(m.inputs[i])])

key_images(m) == [i \in 1 .. Len(m.inputs) |-> key_image(m.inputs[i].true_input)]

revealed_pseudo_commitments(m, rng) ==
    [i \in 1 .. Len(m.inputs) |->
        random_pseudo_commitment(m.inputs[i].true_input, Draw(rng, i))]

pseudo_commitments(rpc) == [i \in 1 .. Len(rpc) |-> commit(rpc[i])]

\* Variant: every output, the last one too, gets a random blinding.
revealed_output_commitments_AllRandom(m, rpc, rng) ==
    [j \in 1 .. Len(m.outputs) |->
        [public_key |-> m.outputs[j].public_key,
         revealed_commitment |-> from_value(m.outputs[j].amount, Draw(rng, j))]]

\* Variant: the correction term is output_sum - input_sum.
revealed_output_commitments_SwappedSub(m, rpc, rng) ==
    IF m.outputs = <<>> THEN <<>>
    ELSE
      LET n == Len(m.outputs)
          first == [j \in 1 .. n - 1 |->
                      [public_key |-> m.outputs[j].public_key,
                       revealed_commitment |->
                          from_value(m.outputs[j].amount, Draw(rng, j))]]
          input_sum == FoldScalar([i \in 1 .. Len(rpc) |-> rpc[i].blinding])
          output_sum ==
              FoldScalar([j \in 1 .. n - 1 |-> first[j].revealed_commitment.blinding])
      IN Append(first,
                [public_key |-> m.outputs[n].public_key,
                 revealed_commitment |->
                    from_value(m.outputs[n].amount, ScalarSub(output_sum, input_sum))])

\* The blinding of the last output is the correction term.
revealed_output_commitments(m, rpc, rng) ==
    IF m.outputs = <<>> THEN <<>>
    ELSE
      LET n == Len(m.outputs)
          first == [j \in 1 .. n - 1 |->
                      [public_key |-> m.outputs[j].public_key,
                       revealed_commitment |->
                          from_value(m.outputs[j].amount, Draw(rng, j))]]
          input_sum == FoldScalar([i \in 1 .. Len(rpc) |-> rpc[i].blinding])
          output_sum ==
              FoldScalar([j \in 1 .. n - 1 |-> first[j].revealed_commitment.blinding])
          output_blinding_correction == ScalarSub(input_sum, output_sum)
      IN Append(first,
                [public_key |-> m.outputs[n].public_key,
                 revealed_commitment |->
                    from_value(m.outputs[n].amount, output_blinding_correction)])

\* The transcript before the k-th proof: the label and the commitments of the
\* proofs before it.
RECURSIVE ProverTranscript(_, _)
ProverTranscript(roc, k) ==
    IF k = 1 THEN MERLIN_TRANSCRIPT_LABEL
    ELSE prove_single(ProverTranscript(roc, k - 1),
                      roc[k - 1].revealed_commitment.value,
                      roc[k - 1].revealed_commitment.blinding).ts

\* Variant: the proofs are emitted in reverse order.
output_range_proofs_Reversed(roc) ==
    LET rev == [k \in 1 .. Len(roc) |-> roc[Len(roc) + 1 - k]]
    IN [k \in 1 .. Len(rev) |->
          LET p == prove_single(ProverTranscript(rev, k),
                                rev[k].revealed_commitment.value,
                                rev[k].revealed_commitment.blinding)
          IN [public_key |-> rev[k].public_key,
              range_proof |-> p.range_proof,
              commitment |-> p.commitment]]

output_range_proofs(roc) ==
    [k \in 1 .. Len(roc) |->
        LET p == prove_single(ProverTranscript(roc, k),
                              roc[k].revealed_commitment.value,
                              roc[k].revealed_commitment.blinding)
        IN [public_key |-> roc[k].public_key,
            range_proof |-> p.range_proof,
            commitment |-> p.commitment]]

sign_message(m, rpc, output_proofs) ==
    gen_message_for_signing(public_keys(m), key_images(m),
                            pseudo_commitments(rpc), output_proofs)

sign(m, rng) ==
    LET rpc == revealed_pseudo_commitments(m, rng)
        roc == revealed_output_commitments(m, rpc, RngAfter(rng, Len(m.inputs)))
        output_proofs == output_range_proofs(roc)
        msg == sign_message(m, rpc, output_proofs)
        mlsags == [i \in 1 .. Len(m.inputs) |-> Mlsag_sign(m.inputs[i], msg, rpc[i])]
    IN [res |-> "Ok",
        tx |-> [mlsags |-> mlsags, outputs |-> output_proofs],
        revealed |-> [j \in 1 .. Len(roc) |-> roc[j].revealed_commitment],
        rpc |-> rpc,
        msg |-> msg]

\* ------------------------------------------------------------ RingCtTransaction

\* Variant: the pseudo-commitments come before the key images.
gen_message_Swapped(t) ==
    gen_message_for_signing(
        Flatten([i \in 1 .. Len(t.mlsags) |-> MlsagSignature_public_keys(t.mlsags[i])]),
        [i \in 1 .. Len(t.mlsags) |-> MlsagSignature_pseudo_commitment(t.mlsags[i])],
        [i \in 1 .. Len(t.mlsags) |-> t.mlsags[i].key_image],
        t.outputs)

gen_message(t) ==
    gen_message_for_signing(
        Flatten([i \in 1 .. Len(t.mlsags) |-> MlsagSignature_public_keys(t.mlsags[i])]),
        [i \in 1 .. Len(t.mlsags) |-> t.mlsags[i].key_image],
        [i \in 1 .. Len(t.mlsags) |-> MlsagSignature_pseudo_commitment(t.mlsags[i])],
        t.outputs)

\* The zip of mlsags and public_commitments_per_ring stops at the shorter one.
MlsagsVerify(t, pcpr) ==
    \A i \in 1 .. Min(Len(t.mlsags), Len(pcpr)) :
        Mlsag_verify(t.mlsags[i], gen_message(t), pcpr[i])

\* The verifier's transcript before the k-th output.
RECURSIVE VerifierTranscript(_, _)
VerifierTranscript(t, k) ==
    IF k = 1 THEN MERLIN_TRANSCRIPT_LABEL
    ELSE VerifierTranscript(t, k - 1) \o Compressed(t.outputs[k - 1].commitment)

RangeProofsVerify(t) ==
    \A k \in 1 .. Len(t.outputs) :
        verify_single(t.outputs[k].range_proof, VerifierTranscript(t, k),
                      t.outputs[k].commitment)

KeyImagesUnique(t) ==
    Cardinality({Compressed(t.mlsags[i].key_image) : i \in 1 .. Len(t.mlsags)})
        = Len(t.mlsags)

\* Variant: public keys are only compared within each ring.
PublicKeysUnique_PerRing(t) ==
    \A i \in 1 .. Len(t.mlsags) :
        LET pks == MlsagSignature_public_keys(t.mlsags[i])
        IN Cardinality({Compressed(pks[k]) : k \in 1 .. Len(pks)}) = Len(pks)

PublicKeysUnique(t) ==
    LET pks == Flatten([i \in 1 .. Len(t.mlsags) |->
                          MlsagSignature_public_keys(t.mlsags[i])])
        pk_unique == {Compressed(pks[i]) : i \in 1 .. Len(pks)}
        pk_count == Len(pks)
    IN Cardinality(pk_unique) = pk_count

\* Variant: the comparison of the two sums is inverted.
CommitmentsBalance_Inverted(t) ==
    PointSum([i \in 1 .. Len(t.mlsags) |->
                 MlsagSignature_pseudo_commitment(t.mlsags[i])])
      # PointSum([k \in 1 .. Len(t.outputs) |-> t.outputs[k].commitment])

CommitmentsBalance(t) ==
    LET input_sum == PointSum([i \in 1 .. Len(t.mlsags) |->
                         MlsagSignature_pseudo_commitment(t.mlsags[i])])
        output_sum == PointSum([k \in 1 .. Len(t.outputs) |-> t.outputs[k].commitment])
    IN input_sum = output_sum

\* Variant: public-key uniqueness is checked before key-image uniqueness.
verify_PkFirst(t, pcpr) ==
    IF ~MlsagsVerify(t, pcpr) THEN "InvalidSignature"
    ELSE IF ~RangeProofsVerify(t) THEN "RangeProofFailure"
    ELSE IF t.mlsags = <<>> THEN "TransactionMustHaveAnInput"
    ELSE IF ~PublicKeysUnique(t) THEN "PublicKeyNotUniqueAcrossInputs"
    ELSE IF ~KeyImagesUnique(t) THEN "KeyImageNotUniqueAcrossInputs"
    ELSE IF ~CommitmentsBalance(t)
         THEN "InputPseudoCommitmentsDoNotSumToOutputCommitments"
    ELSE "Ok"

verify(t, pcpr) ==
    IF ~MlsagsVerify(t, pcpr) THEN "InvalidSignature"
    ELSE IF ~RangeProofsVerify(t) THEN "RangeProofFailure"
    ELSE IF t.mlsags = <<>> THEN "TransactionMustHaveAnInput"
    ELSE IF ~KeyImagesUnique(t) THEN "KeyImageNotUniqueAcrossInputs"
    ELSE IF ~PublicKeysUnique(t) THEN "PublicKeyNotUniqueAcrossInputs"
    ELSE IF ~CommitmentsBalance(t)
         THEN "InputPseudoCommitmentsDoNotSumToOutputCommitments"
    ELSE "Ok"

\* ------------------------------------------------------------------ the inputs

Keys == 1 .. 2

Amounts == {1, 2}

\* The coin of key k holds amount k under blinding 5.
TrueInputs ==
    {[secret_key |-> k, revealed_commitment |-> from_value(k, 5)] : k \in Keys}

DecoyInputs == {[public_key |-> PubKey(3), commitment |-> Point(4, 6, 0)]}

DecoyLists == SeqsUpTo(DecoyInputs, 1)

InputPool ==
    UNION {{[true_input |-> t, decoy_inputs |-> d, pi_base |-> p] :
               p \in 0 .. Len(d)} : <<t, d>> \in TrueInputs \X DecoyLists}

OutputPool == {[public_key |-> PubKey(5 + a), amount |-> a] : a \in Amounts}

Materials ==
    [inputs : SeqsUpTo(InputPool, MaxInputs), outputs : SeqsUpTo(OutputPool, MaxOutputs)]

\* The public commitments of every ring of the material, per ring in ring order.
TrueCommitments(m) == [i \in 1 .. Len(m.inputs) |-> Mlsag_commitments(m.inputs[i])]

NoTx == [mlsags |-> <<>>, outputs |-> <<>>]

\* -------------------------------------------------------------------- the state

VARIABLES
    pc,         \* "start", "signed", "verified"
    material,   \* the RingCtMaterial
    rng,        \* the state of the caller's rng handed to sign
    signed,     \* what sign returned and built
    tx,         \* the transaction handed to verify
    pcpr,       \* verify's argument public_commitments_per_ring
    result      \* what verify returned

vars == <<pc, material, rng, signed, tx, pcpr, result>>

Init ==
    /\ pc = "start"
    /\ material \in Materials
    /\ rng \in Seeds
    /\ signed = [res |-> "None"]
    /\ tx = NoTx
    /\ pcpr = <<>>
    /\ result = "None"

Sign ==
    /\ pc = "start"
    /\ signed' = sign(material, rng)
    /\ tx' = signed'.tx
    /\ pc' = "signed"
    /\ UNCHANGED <<material, rng, pcpr, result>>

\* A holder of the transaction overwrites one output's commitment.
Tamper ==
    /\ pc = "signed"
    /\ tx = signed.tx
    /\ \E k \in 1 .. Len(tx.outputs) :
          tx' = [tx EXCEPT !.outputs[k].commitment = PointAdd(@, Point(1, 0, 0))]
    /\ UNCHANGED <<pc, material, rng, signed, pcpr, result>>

\* The arguments verify is called with: the rings' commitments, all but the
\* last ring's, and the rings' commitments with one replaced.
CommitmentArgs(m) ==
    LET c == TrueCommitments(m)
    IN {c}
         \cup (IF c = <<>> THEN {}
               ELSE {SubSeq(c, 1, Len(c) - 1),
                     [c EXCEPT ![1][1] = PointAdd(@, Point(0, 1, 0))]})

Verify ==
    /\ pc = "signed"
    /\ \E a \in CommitmentArgs(material) :
          /\ pcpr' = a
          /\ result' = verify(tx, a)
    /\ pc' = "verified"
    /\ UNCHANGED <<material, rng, signed, tx>>

Next == Sign \/ Tamper \/ Verify

Spec == Init /\ [][Next]_vars

\* ------------------------------------------------------------------ the claims

RECURSIVE SumInt(_)
SumInt(s) == IF s = <<>> THEN 0 ELSE Head(s) + SumInt(Tail(s))

PairwiseDistinct(s) == \A i, j \in 1 .. Len(s) : i # j => s[i] # s[j]

InputAmounts(m) ==
    [i \in 1 .. Len(m.inputs) |-> m.inputs[i].true_input.revealed_commitment.value]

OutputAmounts(m) == [j \in 1 .. Len(m.outputs) |-> m.outputs[j].amount]

Balanced(m) == SumInt(InputAmounts(m)) = SumInt(OutputAmounts(m))

DistinctKeys(m) ==
    PairwiseDistinct(public_keys(m)) /\ PairwiseDistinct(key_images(m))

TxPublicKeys(t) ==
    Flatten([i \in 1 .. Len(t.mlsags) |-> MlsagSignature_public_keys(t.mlsags[i])])

TxKeyImages(t) == [i \in 1 .. Len(t.mlsags) |-> t.mlsags[i].key_image]

\* verify was called on the transaction sign returned, with the rings' own
\* public commitments.
HonestVerify ==
    /\ pc = "verified"
    /\ tx = signed.tx
    /\ pcpr = TrueCommitments(material)

DoNotBalance == "InputPseudoCommitmentsDoNotSumToOutputCommitments"

\* C1: for a material with at least one input and one output, pairwise
\* distinct ring public keys and key images and equal sums of input and output
\* amounts, verify accepts the transaction sign returns when it is given the
\* rings' public commitments in ring order.
C1_RoundTrip ==
    (/\ HonestVerify
     /\ Len(material.inputs) >= 1
     /\ Len(material.outputs) >= 1
     /\ DistinctKeys(material)
     /\ Balanced(material))
    => signed.res = "Ok" /\ result = "Ok"

C1_Witness ==
    /\ HonestVerify
     /\ Len(material.inputs) = 2
     /\ Len(material.outputs) = 2
     /\ Len(public_keys(material)) = 3
     /\ DistinctKeys(material)
     /\ Balanced(material)
     /\ result = "Ok"

\* C2 (as claimed): verify returns success only if every MLSAG of the
\* transaction was verified against the signing message and the commitments
\* given for its ring, whatever the length of public_commitments_per_ring.
C2_EveryMlsagVerified ==
    (pc = "verified" /\ result = "Ok")
    => \A i \in 1 .. Len(tx.mlsags) :
          /\ i <= Len(pcpr)
          /\ Mlsag_verify(tx.mlsags[i], gen_message(tx), pcpr[i])

\* C3 (as claimed): sign on a material without outputs fails with NoOutputs.
C3_NoOutputsError ==
    (pc # "start" /\ material.outputs = <<>>) => signed.res = "NoOutputs"

\* C4 (as claimed): sign on a material without inputs fails with NoInputs and
\* never returns a transaction with zero mlsags.
C4_NoInputsError ==
    /\ (pc # "start" /\ material.inputs = <<>>) => signed.res = "NoInputs"
    /\ (pc # "start" /\ signed.res = "Ok") => Len(signed.tx.mlsags) >= 1

\* C5: verify returns success only if the transaction has at least one mlsag,
\* its key images are pairwise distinct and the public keys of all rings
\* together are pairwise distinct.
C5_AcceptanceImpliesStructure ==
    (pc = "verified" /\ result = "Ok")
    => /\ Len(tx.mlsags) >= 1
       /\ PairwiseDistinct(TxKeyImages(tx))
       /\ PairwiseDistinct(TxPublicKeys(tx))

C5_Witness ==
    /\ pc = "verified"
    /\ result = "Ok"
    /\ Len(tx.mlsags) = 2
    /\ Len(TxPublicKeys(tx)) = 3

\* C6 (as claimed): for every material with at least one input and one output
\* whose amounts do not balance, verify, given the rings' commitments, fails
\* with the commitments-do-not-balance error.
C6_UnbalancedAlwaysDoNotBalance ==
    (/\ HonestVerify
     /\ Len(material.inputs) >= 1
     /\ Len(material.outputs) >= 1
     /\ ~Balanced(material))
    => result = DoNotBalance

\* C6 (amended): such a transaction is always rejected; the MLSAG and range
\* proof checks pass; the error is the commitments-do-not-balance one when the
\* ring public keys and the key images are pairwise distinct, and the error of
\* the uniqueness check that fails first when they are not.
C6_UnbalancedRejected ==
    (/\ HonestVerify
     /\ Len(material.inputs) >= 1
     /\ Len(material.outputs) >= 1
     /\ ~Balanced(material))
    => /\ result # "Ok"
       /\ MlsagsVerify(tx, pcpr)
       /\ RangeProofsVerify(tx)
       /\ DistinctKeys(material) => result = DoNotBalance
       /\ ~PairwiseDistinct(key_images(material))
             => result = "KeyImageNotUniqueAcrossInputs"
       /\ (PairwiseDistinct(key_images(material))
             /\ ~PairwiseDistinct(public_keys(material)))
             => result = "PublicKeyNotUniqueAcrossInputs"

C6_Witness ==
    /\ HonestVerify
    /\ Len(material.inputs) = 2
    /\ Len(material.outputs) = 2
    /\ ~Balanced(material)
    /\ DistinctKeys(material)
    /\ result = DoNotBalance

\* The message as the claim spells it: ring public keys per input, key images
\* per input, pseudo-commitments per input, output proofs per output.
ExpectedMessage ==
    LET m == material
        t == signed.tx
    IN Flatten([i \in 1 .. Len(m.inputs) |->
                  Flatten([k \in 1 .. Len(Mlsag_public_keys(m.inputs[i])) |->
                              Compressed(Mlsag_public_keys(m.inputs[i])[k])])])
         \o Flatten([i \in 1 .. Len(m.inputs) |->
                  Compressed(key_image(m.inputs[i].true_input))])
         \o Flatten([i \in 1 .. Len(m.inputs) |-> Compressed(commit(signed.rpc[i]))])
         \o Flatten([k \in 1 .. Len(t.outputs) |->
                  Compressed(t.outputs[k].public_key)
                    \o RangeProof_to_bytes(t.outputs[k].range_proof)
                    \o Compressed(t.outputs[k].commitment)])

\* C7: the message sign signs equals gen_message() of the transaction it
\* returns, and both are the concatenation of the ring public keys, the key
\* images, the pseudo-commitments and the output proofs, in this order.
C7_MessageAgreement ==
    pc # "start"
    => /\ signed.msg = gen_message(signed.tx)
       /\ signed.msg = ExpectedMessage
       /\ \A i \in 1 .. Len(signed.tx.mlsags) : signed.tx.mlsags[i].c0.msg = signed.msg

C7_Witness ==
    /\ pc = "signed"
    /\ Len(material.inputs) = 2
    /\ Len(public_keys(material)) = 3
    /\ Len(material.outputs) = 2
    /\ signed.msg = gen_message(signed.tx)
    /\ TxKeyImages(signed.tx) # pseudo_commitments(signed.rpc)

\* C8: verify returns the error of the first check that fails, in the order
\* MLSAGs, range proofs, at least one input, key images, public keys, balance.
C8_CheckOrder ==
    pc = "verified"
    => LET sigs == MlsagsVerify(tx, pcpr)
           rps == RangeProofsVerify(tx)
           some == Len(tx.mlsags) >= 1
           kis == PairwiseDistinct(TxKeyImages(tx))
           pks == PairwiseDistinct(TxPublicKeys(tx))
           bal == CommitmentsBalance(tx)
       IN /\ result = "InvalidSignature" <=> ~sigs
          /\ result = "RangeProofFailure" <=> (sigs /\ ~rps)
          /\ result = "TransactionMustHaveAnInput" <=> (sigs /\ rps /\ ~some)
          /\ result = "KeyImageNotUniqueAcrossInputs"
                <=> (sigs /\ rps /\ some /\ ~kis)
          /\ result = "PublicKeyNotUniqueAcrossInputs"
                <=> (sigs /\ rps /\ some /\ kis /\ ~pks)
          /\ result = DoNotBalance <=> (sigs /\ rps /\ some /\ kis /\ pks /\ ~bal)
          /\ result = "Ok" <=> (sigs /\ rps /\ some /\ kis /\ pks /\ bal)

C8_Witness ==
    /\ pc = "verified"
    /\ Len(tx.mlsags) = 2
    /\ ~PairwiseDistinct(TxKeyImages(tx))
    /\ ~PairwiseDistinct(TxPublicKeys(tx))
    /\ ~CommitmentsBalance(tx)
    /\ result = "KeyImageNotUniqueAcrossInputs"

\* The second case of C8: no mlsag and a range proof that does not verify.
C8_WitnessNoInput ==
    /\ pc = "verified"
    /\ tx.mlsags = <<>>
    /\ ~RangeProofsVerify(tx)
    /\ result = "RangeProofFailure"

InputBlindings == [i \in 1 .. Len(signed.rpc) |-> signed.rpc[i].blinding]

OutputBlindings == [j \in 1 .. Len(signed.revealed) |-> signed.revealed[j].blinding]

\* C9: with at least one output, every output but the last has the blinding
\* the rng drew for it, the last one has (sum of the pseudo-commitment
\* blindings - sum of the other outputs' blindings) mod Q, and the sums of
\* the output and of the pseudo-commitment blindings agree mod Q.
C9_BlindingBalance ==
    (pc # "start" /\ material.outputs # <<>>)
    => LET n == Len(material.outputs)
           ins == SumInt(InputBlindings)
           others == SumInt(SubSeq(OutputBlindings, 1, n - 1))
       IN /\ Len(signed.revealed) = n
          /\ \A j \in 1 .. n - 1 :
                OutputBlindings[j] = Draw(rng, Len(material.inputs) + j)
          /\ \A i \in 1 .. Len(material.inputs) : InputBlindings[i] = Draw(rng, i)
          /\ OutputBlindings[n] \in Scalars
          /\ OutputBlindings[n] = (ins + Q * n - others) % Q
          /\ SumInt(OutputBlindings) % Q = ins % Q
          /\ n = 1 => OutputBlindings[1] = ins % Q

C9_Witness ==
    /\ pc = "signed"
    /\ Len(material.inputs) = 2
    /\ Len(material.outputs) = 2
    /\ SumInt(InputBlindings) >= Q
    /\ SumInt(InputBlindings) % Q < OutputBlindings[1]

\* C10: sign returns one mlsag per input and one output proof and one revealed
\* commitment per output, in order: the i-th revealed commitment has the
\* amount of outputs[i] and commits to the i-th output proof's commitment,
\* whose public key is the recipient's.
C10_OrderAndCorrespondence ==
    (pc # "start" /\ signed.res = "Ok")
    => /\ Len(signed.tx.mlsags) = Len(material.inputs)
       /\ \A i \in 1 .. Len(material.inputs) :
             /\ signed.tx.mlsags[i].key_image = key_image(material.inputs[i].true_input)
             /\ MlsagSignature_public_keys(signed.tx.mlsags[i])
                   = Mlsag_public_keys(material.inputs[i])
       /\ Len(signed.tx.outputs) = Len(material.outputs)
       /\ Len(signed.revealed) = Len(material.outputs)
       /\ \A j \in 1 .. Len(material.outputs) :
             /\ signed.revealed[j].value = material.outputs[j].amount
             /\ signed.tx.outputs[j].public_key = material.outputs[j].public_key
             /\ Point(signed.revealed[j].value, signed.revealed[j].blinding, 0)
                   = signed.tx.outputs[j].commitment

C10_Witness ==
    /\ pc = "signed"
    /\ signed.res = "Ok"
    /\ Len(material.inputs) = 2
    /\ Len(material.outputs) = 2
    /\ material.outputs[1] # material.outputs[2]
    /\ signed.revealed[1].value = material.outputs[1].amount
    /\ signed.tx.outputs[2].public_key = material.outputs[2].public_key

=============================================================================
